---- MODULE Spec2Model ----
(***************************************************************************)
(* A model of efs_mbn_extractor.py: the MCFG container parser              *)
(* (MbnExtractor), the output sink (_save_to_file) and the command-line    *)
(* entry point (main).                                                     *)
(*                                                                         *)
(* Bytes are integers 0..255, byte strings and text strings are sequences  *)
(* of them (text: the character codes).  A stream is a buffer and a        *)
(* 0-based cursor, as io.BytesIO.  Every function of the source is an      *)
(* operator that returns a record with the exception it raised (err,       *)
(* NoErr when it returned) beside what it computed.                        *)
(***************************************************************************)
EXTENDS Integers, Sequences, FiniteSets, TLC

\* ------------------------------------------------------------------ text

\* b"MCFG"
MAGIC == <<77, 67, 70, 71>>
\* b"MCFG_TRL"
TRAILER_MAGIC == <<77, 67, 70, 71, 95, 84, 82, 76>>
\* "__E1FF_F" and "__81FF_0"
SuffixNvFile == <<95, 95, 69, 49, 70, 70, 95, 70>>
SuffixFile == <<95, 95, 56, 49, 70, 70, 95, 48>>
\* "NvItem__"
NvItemPrefix == <<78, 118, 73, 116, 101, 109, 95, 95>>

\* class ItemType(IntEnum)
ItemType_Nv == 1
ItemType_NvFile == 2
ItemType_File == 4

\* ------------------------------------------------------------ exceptions

NoErr == "none"
ErrEOF == "Unexpected EOF while reading MBN"
ErrNoMagic == "Invalid MBN format. Can't find magic string"
ErrVersionId == "Invalid MBN header version id"
ErrVersionSize == "Invalid MBN header version size"
ErrZeroItems == "Invalid MBN header: zero items count"
ErrUnknownType == "Invalid MBN: unknown item type"
ErrTrailerMagic1 == "Invalid trailer magic 1"
ErrTrailerMagic2 == "Invalid trailer magic 2"
ErrTrailerSize == "Invalid trailer size"
ErrTrailerValue == "Invalid trailer magic value"
ErrFileHeaderMagic == "Invalid file header magic"
ErrFileSizeMagic == "Invalid file size magic"
ErrFileItemSize == "Invalid file item size"
ErrNvItemSize == "Invalid NV item size"
ErrElfParse == "Failed to parse ELF"
ErrElfSegments == "Invalid MBN format: ELF segment with data not exist"

\* The messages raised as MbnExtractorException.
MbnExtractorException ==
    { ErrEOF, ErrNoMagic, ErrVersionId, ErrVersionSize, ErrZeroItems,
      ErrUnknownType, ErrTrailerMagic1, ErrTrailerMagic2, ErrTrailerSize,
      ErrTrailerValue, ErrFileHeaderMagic, ErrFileSizeMagic, ErrFileItemSize,
      ErrNvItemSize, ErrElfParse, ErrElfSegments }

\* Exceptions of the runtime and the operating system, none of them an
\* MbnExtractorException.
ErrName == "NameError"
ErrValue == "ValueError: embedded null byte"
ErrIsADirectory == "IsADirectoryError"
ErrNotADirectory == "NotADirectoryError"
ErrNoEntry == "FileNotFoundError"

\* ---------------------------------------------------------------- bytes

\* U16 with the byte order mistaken: struct.unpack(">H", b)[0].
U16_big_endian(b) == 256 * b[1] + b[2]

\* struct.unpack("<H", b)[0]
U16(b) == b[1] + 256 * b[2]

\* struct.unpack("<I", b)[0]
U32(b) == b[1] + 256 * b[2] + 65536 * b[3] + 16777216 * b[4]

\* bytes.decode("ascii", errors="ignore"): the bytes above 127 are dropped.
DecodeAsciiIgnore(b) == SelectSeq(b, LAMBDA x : x < 128)

\* The element of a singleton.  { F(r) : r \in {e} } is F of the value of e,
\* which is computed once: a local variable of the source.
Only(S) == CHOOSE x \in S : TRUE

\* stream.read(size): at most size bytes, all that is left when size < 0.
stream_read(buf, pos, size) ==
    LET avail == Len(buf) - pos
        n == IF size < 0 \/ size > avail THEN avail ELSE size
    IN [bytes |-> SubSeq(buf, pos + 1, pos + n), pos |-> pos + n]

\* _read_exact without its length check: a short read is handed on, the
\* missing bytes as zeros.
read_exact_unchecked(buf, pos, size) ==
    Only({ [err |-> NoErr,
            bytes |-> [k \in 1..(IF size < 0 THEN Len(r.bytes) ELSE size) |->
                         IF k <= Len(r.bytes) THEN r.bytes[k] ELSE 0],
            pos |-> r.pos]
           : r \in {stream_read(buf, pos, size)} })

\* _read_exact: the bytes read and the cursor behind them, or the
\* truncated-input exception.
read_exact(buf, pos, size) ==
    Only({ IF Len(r.bytes) # size
           THEN [err |-> ErrEOF, bytes |-> <<>>, pos |-> r.pos]
           ELSE [err |-> NoErr, bytes |-> r.bytes, pos |-> r.pos]
           : r \in {stream_read(buf, pos, size)} })

\* bytes.find(magic): the lowest index of an occurrence, -1 when there is none.
bytes_find(buf, magic) ==
    LET hits == { k \in 0..(Len(buf) - Len(magic)) :
                    SubSeq(buf, k + 1, k + Len(magic)) = magic }
    IN IF hits = {} THEN -1
       ELSE CHOOSE k \in hits : \A j \in hits : k <= j

\* _find_magic_and_seek: the cursor at the signature, or the exception.
find_magic_and_seek(buf, magic) ==
    LET idx == bytes_find(buf, magic)
    IN IF idx = -1 THEN [err |-> ErrNoMagic, pos |-> Len(buf)]
       ELSE [err |-> NoErr, pos |-> idx]

\* --------------------------------------------------------------- header

HeaderFail(e, p) == [err |-> e, pos |-> p, items_count |-> 0]

\* _read_mcfg_header.  Each field is read where the reads before it left the
\* cursor: at bytes behind the place of the signature.
read_mcfg_header(buf) ==
    LET f == find_magic_and_seek(buf, MAGIC)
        field(at, size) == read_exact(buf, f.pos + at, size)
        magic_bytes == field(0, Len(MAGIC))
        format_type == field(4, 2)
        configuration_type == field(6, 2)
        items_count == field(8, 4)
        carrier_index == field(12, 2)
        reserved == field(14, 2)
        version_id == field(16, 2)
        version_size == field(18, 2)
        version == field(20, 4)
    IN IF f.err # NoErr THEN HeaderFail(f.err, f.pos)
       ELSE IF magic_bytes.err # NoErr THEN HeaderFail(magic_bytes.err, magic_bytes.pos)
       ELSE IF format_type.err # NoErr THEN HeaderFail(format_type.err, format_type.pos)
       ELSE IF configuration_type.err # NoErr
       THEN HeaderFail(configuration_type.err, configuration_type.pos)
       ELSE IF items_count.err # NoErr THEN HeaderFail(items_count.err, items_count.pos)
       ELSE IF carrier_index.err # NoErr
       THEN HeaderFail(carrier_index.err, carrier_index.pos)
       ELSE IF reserved.err # NoErr THEN HeaderFail(reserved.err, reserved.pos)
       ELSE IF version_id.err # NoErr THEN HeaderFail(version_id.err, version_id.pos)
       ELSE IF U16(version_id.bytes) # 4995 THEN HeaderFail(ErrVersionId, version_id.pos)
       ELSE IF version_size.err # NoErr THEN HeaderFail(version_size.err, version_size.pos)
       ELSE IF U16(version_size.bytes) # 4
       THEN HeaderFail(ErrVersionSize, version_size.pos)
       ELSE IF version.err # NoErr THEN HeaderFail(version.err, version.pos)
       ELSE [err |-> NoErr, pos |-> version.pos, items_count |-> U32(items_count.bytes)]

\* _read_item_header: uint32 length, byte type, byte attributes, ushort reserved.
read_item_header(buf, pos) ==
    Only({ IF data.err # NoErr
           THEN [err |-> data.err, pos |-> data.pos, length |-> 0, type |-> 0]
           ELSE [err |-> NoErr, pos |-> data.pos,
                 length |-> U32(SubSeq(data.bytes, 1, 4)), type |-> data.bytes[5]]
           : data \in {read_exact(buf, pos, 8)} })

\* -------------------------------------------------------------- trailer

\* _read_trailer: NoErr when the trailer is accepted.
read_trailer(buf, pos) ==
    LET field(at, size) == read_exact(buf, pos + at, size)
        record_length == field(0, 4)
        trailer_magic == field(4, 2)
        reserved == field(6, 2)
        trailer_magic2 == field(8, 2)
        data_length == field(10, 2)
        payload == field(12, U16(field(10, 2).bytes) - 8)
    IN IF record_length.err # NoErr THEN record_length.err
       ELSE IF trailer_magic.err # NoErr THEN trailer_magic.err
       ELSE IF U16(trailer_magic.bytes) # 10 THEN ErrTrailerMagic1
       ELSE IF reserved.err # NoErr THEN reserved.err
       ELSE IF trailer_magic2.err # NoErr THEN trailer_magic2.err
       ELSE IF U16(trailer_magic2.bytes) # 161 THEN ErrTrailerMagic2
       ELSE IF data_length.err # NoErr THEN data_length.err
       ELSE IF U16(data_length.bytes) < 8 THEN ErrTrailerSize
       ELSE IF payload.err # NoErr THEN payload.err
       ELSE IF DecodeAsciiIgnore(payload.bytes) # TRAILER_MAGIC THEN ErrTrailerValue
       ELSE NoErr

\* ---------------------------------------------------------- file system

\* os.sep on the platform modelled (POSIX): "/".
os_sep == 47

\* The names "." and "..".
CurDir == <<46>>
ParDir == <<46, 46>>

\* The file system: files maps each regular file's location to its content,
\* dirs is the set of directories; a location is the sequence of names from
\* the root.  sunk is the log of the calls of _save_to_file.
EmptyFiles == [p \in {} |-> <<>>]

\* str.replace(a, b) for single characters.
str_replace(s, a, b) == [k \in DOMAIN s |-> IF s[k] = a THEN b ELSE s[k]]

\* str.lstrip(c)
RECURSIVE str_lstrip(_, _)
str_lstrip(s, c) ==
    IF s # <<>> /\ Head(s) = c THEN str_lstrip(Tail(s), c) ELSE s

\* str.rstrip(c)
RECURSIVE str_rstrip(_, _)
str_rstrip(s, c) ==
    IF s # <<>> /\ s[Len(s)] = c THEN str_rstrip(SubSeq(s, 1, Len(s) - 1), c) ELSE s

\* str.rfind(c) + 1: the 1-based place of the last c, 0 when there is none.
LastIndex(s, c) ==
    LET hits == { k \in DOMAIN s : s[k] = c }
    IN IF hits = {} THEN 0 ELSE CHOOSE k \in hits : \A j \in hits : j <= k

\* os.path.join(a, b) of posixpath.
os_path_join(a, b) ==
    IF b # <<>> /\ Head(b) = os_sep THEN b
    ELSE IF a = <<>> \/ a[Len(a)] = os_sep THEN a \o b
    ELSE a \o <<os_sep>> \o b

\* os.path.dirname(p) of posixpath.
os_path_dirname(p) ==
    LET head == SubSeq(p, 1, LastIndex(p, os_sep))
    IN IF head # <<>> /\ str_rstrip(head, os_sep) # <<>>
       THEN str_rstrip(head, os_sep)
       ELSE head

\* os.path.basename(p) of posixpath.
os_path_basename(p) == SubSeq(p, LastIndex(p, os_sep) + 1, Len(p))

\* The names of a path, between its separators (some may be empty).
RECURSIVE PathNames(_)
PathNames(p) ==
    LET hits == { k \in DOMAIN p : p[k] = os_sep }
        first == CHOOSE k \in hits : \A j \in hits : k <= j
    IN IF hits = {} THEN <<p>>
       ELSE <<SubSeq(p, 1, first - 1)>> \o PathNames(SubSeq(p, first + 1, Len(p)))

\* The kernel's walk along the names of a directory path, from location cur:
\* "" and "." stay, ".." goes to the parent (the root is its own parent), any
\* other name enters that directory, which is created when create is set and
\* it does not exist.
RECURSIVE WalkDirs(_, _, _, _, _)
WalkDirs(names, cur, create, files, dirs) ==
    IF names = <<>> THEN [err |-> NoErr, cur |-> cur, dirs |-> dirs]
    ELSE LET c == Head(names)
             child == Append(cur, c)
         IN IF 0 \in { c[k] : k \in DOMAIN c }
            THEN [err |-> ErrValue, cur |-> cur, dirs |-> dirs]
            ELSE IF c = <<>> \/ c = CurDir
            THEN WalkDirs(Tail(names), cur, create, files, dirs)
            ELSE IF c = ParDir
            THEN WalkDirs(Tail(names),
                          IF cur = <<>> THEN cur ELSE SubSeq(cur, 1, Len(cur) - 1),
                          create, files, dirs)
            ELSE IF child \in DOMAIN files
            THEN [err |-> ErrNotADirectory, cur |-> cur, dirs |-> dirs]
            ELSE IF child \in dirs
            THEN WalkDirs(Tail(names), child, create, files, dirs)
            ELSE IF create
            THEN WalkDirs(Tail(names), child, create, files, dirs \cup {child})
            ELSE [err |-> ErrNoEntry, cur |-> cur, dirs |-> dirs]

\* os.makedirs(dir_name, exist_ok=True)
os_makedirs(dir_name, files, dirs) ==
    WalkDirs(PathNames(dir_name), <<>>, TRUE, files, dirs)

\* open_write opening in exclusive mode without reporting it: a file that
\* exists keeps its content.
open_write_keep(path, content, files, dirs) ==
    Only({ IF where.err # NoErr THEN [err |-> where.err, files |-> files]
           ELSE IF 0 \in { base[k] : k \in DOMAIN base }
           THEN [err |-> ErrValue, files |-> files]
           ELSE IF base = <<>> \/ base = CurDir \/ base = ParDir
                   \/ Append(where.cur, base) \in dirs
           THEN [err |-> ErrIsADirectory, files |-> files]
           ELSE [err |-> NoErr,
                 files |-> [p \in DOMAIN files \cup {Append(where.cur, base)} |->
                              IF p \in DOMAIN files THEN files[p] ELSE content]]
           : where \in {WalkDirs(PathNames(os_path_dirname(path)), <<>>, FALSE, files, dirs)},
             base \in {os_path_basename(path)} })

\* open(path, "wb") and f.write(content): the file at the location the path
\* resolves to is created or truncated, and holds content.
open_write(path, content, files, dirs) ==
    Only({ IF where.err # NoErr THEN [err |-> where.err, files |-> files]
           ELSE IF 0 \in { base[k] : k \in DOMAIN base }
           THEN [err |-> ErrValue, files |-> files]
           ELSE IF base = <<>> \/ base = CurDir \/ base = ParDir
                   \/ Append(where.cur, base) \in dirs
           THEN [err |-> ErrIsADirectory, files |-> files]
           ELSE [err |-> NoErr,
                 files |-> [p \in DOMAIN files \cup {Append(where.cur, base)} |->
                              IF p = Append(where.cur, base) THEN content ELSE files[p]]]
           : where \in {WalkDirs(PathNames(os_path_dirname(path)), <<>>, FALSE, files, dirs)},
             base \in {os_path_basename(path)} })

\* _save_to_file, in world w = [files, dirs, sunk]; the call is logged in sunk:
\* the name and the content it was given, and whether it returned.
save_to_file(file_name, content, output_directory, w) ==
    Only({ Only({ IF made.err # NoErr
                  THEN [err |-> made.err,
                        w |-> [files |-> w.files, dirs |-> made.dirs,
                               sunk |-> Append(w.sunk, [name |-> file_name,
                                                         content |-> content,
                                                         ok |-> FALSE])]]
                  ELSE Only({ [err |-> wrote.err,
                               w |-> [files |-> wrote.files, dirs |-> made.dirs,
                                      sunk |-> Append(w.sunk, [name |-> file_name,
                                                                content |-> content,
                                                                ok |-> wrote.err = NoErr])]]
                              : wrote \in {open_write(path, content, w.files, made.dirs)} })
                  : made \in { IF os_path_dirname(path) # <<>>
                               THEN os_makedirs(os_path_dirname(path), w.files, w.dirs)
                               ELSE [err |-> NoErr, cur |-> <<>>, dirs |-> w.dirs] } })
           : path \in { os_path_join(output_directory,
                                     str_lstrip(str_replace(file_name, 47, os_sep),
                                                os_sep)) } })

\* ---------------------------------------------------------------- items

\* f"{n:08d}": the decimal digits of n, zero-padded to width.
RECURSIVE Decimal(_, _)
Decimal(n, width) ==
    IF width <= 0 /\ n = 0 THEN <<>>
    ELSE Append(Decimal(n \div 10, width - 1), 48 + (n % 10))

\* _parse_nv without its size check.
parse_nv_unsized(buf, pos, item_length, output_directory, w) ==
    LET nv_id == read_exact(buf, pos, 2)
        declared == read_exact(buf, pos + 2, 2)
        data_length == U16(read_exact(buf, pos + 2, 2).bytes) - 1
        data_magic == read_exact(buf, pos + 4, 1)
        data == read_exact(buf, pos + 5, data_length)
        file_name == NvItemPrefix \o Decimal(U16(nv_id.bytes), 8)
    IN IF nv_id.err # NoErr THEN [err |-> nv_id.err, pos |-> nv_id.pos, w |-> w]
       ELSE IF declared.err # NoErr
       THEN [err |-> declared.err, pos |-> declared.pos, w |-> w]
       ELSE IF data_magic.err # NoErr
       THEN [err |-> data_magic.err, pos |-> data_magic.pos, w |-> w]
       ELSE IF data.err # NoErr THEN [err |-> data.err, pos |-> data.pos, w |-> w]
       ELSE Only({ [err |-> saved.err, pos |-> data.pos, w |-> saved.w]
                   : saved \in {save_to_file(file_name, data.bytes,
                                             output_directory, w)} })

\* _parse_nv, the cursor pos just behind the item header.  Each field is read
\* where the reads before it left the cursor.
parse_nv(buf, pos, item_length, output_directory, w) ==
    LET nv_id == read_exact(buf, pos, 2)
        declared == read_exact(buf, pos + 2, 2)
        data_length == U16(read_exact(buf, pos + 2, 2).bytes) - 1
        data_magic == read_exact(buf, pos + 4, 1)
        data == read_exact(buf, pos + 5, data_length)
        real_length == (data.pos - pos) + 8
        file_name == NvItemPrefix \o Decimal(U16(nv_id.bytes), 8)
    IN IF nv_id.err # NoErr THEN [err |-> nv_id.err, pos |-> nv_id.pos, w |-> w]
       ELSE IF declared.err # NoErr
       THEN [err |-> declared.err, pos |-> declared.pos, w |-> w]
       ELSE IF data_magic.err # NoErr
       THEN [err |-> data_magic.err, pos |-> data_magic.pos, w |-> w]
       ELSE IF data.err # NoErr THEN [err |-> data.err, pos |-> data.pos, w |-> w]
       ELSE IF real_length # item_length
       THEN [err |-> ErrNvItemSize, pos |-> data.pos, w |-> w]
       ELSE Only({ [err |-> saved.err, pos |-> data.pos, w |-> saved.w]
                   : saved \in {save_to_file(file_name, data.bytes,
                                             output_directory, w)} })

\* save_name with the suffixes of the two kinds exchanged.
save_name_exchanged(file_name, is_nv_file, no_extra_data) ==
    IF no_extra_data THEN file_name
    ELSE IF is_nv_file THEN file_name \o SuffixFile
    ELSE file_name \o SuffixNvFile

\* save_name of _parse_file.
save_name_of(file_name, is_nv_file, no_extra_data) ==
    IF no_extra_data THEN file_name
    ELSE IF is_nv_file THEN file_name \o SuffixNvFile
    ELSE file_name \o SuffixFile

\* _parse_file, the cursor pos just behind the item header.
parse_file(buf, pos, item_length, is_nv_file, no_extra_data, output_directory, w) ==
    LET file_header_magic == read_exact(buf, pos, 2)
        name_length == read_exact(buf, pos + 2, 2)
        file_name_length == U16(read_exact(buf, pos + 2, 2).bytes)
        raw_name == read_exact(buf, pos + 4, file_name_length)
        file_name ==
            IF file_name_length > 0
            THEN DecodeAsciiIgnore(SubSeq(raw_name.bytes, 1, file_name_length - 1))
            ELSE <<>>
        behind_name == pos + 4 + file_name_length
        file_size_magic == read_exact(buf, behind_name, 2)
        declared == read_exact(buf, behind_name + 2, 2)
        data_length == U16(read_exact(buf, behind_name + 2, 2).bytes) - 1
        data_magic == read_exact(buf, behind_name + 4, 1)
        data == read_exact(buf, behind_name + 5, data_length)
        real_length == (data.pos - pos) + 8
        save_name == save_name_of(file_name, is_nv_file, no_extra_data)
    IN IF file_header_magic.err # NoErr
       THEN [err |-> file_header_magic.err, pos |-> file_header_magic.pos, w |-> w]
       ELSE IF U16(file_header_magic.bytes) # 1
       THEN [err |-> ErrFileHeaderMagic, pos |-> file_header_magic.pos, w |-> w]
       ELSE IF name_length.err # NoErr
       THEN [err |-> name_length.err, pos |-> name_length.pos, w |-> w]
       ELSE IF raw_name.err # NoErr
       THEN [err |-> raw_name.err, pos |-> raw_name.pos, w |-> w]
       ELSE IF file_size_magic.err # NoErr
       THEN [err |-> file_size_magic.err, pos |-> file_size_magic.pos, w |-> w]
       ELSE IF U16(file_size_magic.bytes) # 2
       THEN [err |-> ErrFileSizeMagic, pos |-> file_size_magic.pos, w |-> w]
       ELSE IF declared.err # NoErr
       THEN [err |-> declared.err, pos |-> declared.pos, w |-> w]
       ELSE IF data_magic.err # NoErr
       THEN [err |-> data_magic.err, pos |-> data_magic.pos, w |-> w]
       ELSE IF data.err # NoErr THEN [err |-> data.err, pos |-> data.pos, w |-> w]
       ELSE IF real_length # item_length
       THEN [err |-> ErrFileItemSize, pos |-> data.pos, w |-> w]
       ELSE Only({ [err |-> saved.err, pos |-> data.pos, w |-> saved.w]
                   : saved \in {save_to_file(save_name, data.bytes,
                                             output_directory, w)} })

\* One iteration of the loop of _parse_image: an item header, then its decoder.
parse_item(buf, pos, no_extra_data, output_directory, w) ==
    Only({ IF item_header.err # NoErr
           THEN [err |-> item_header.err, pos |-> item_header.pos, w |-> w]
           ELSE IF item_header.type = ItemType_Nv
           THEN parse_nv(buf, item_header.pos, item_header.length, output_directory, w)
           ELSE IF item_header.type = ItemType_NvFile
           THEN parse_file(buf, item_header.pos, item_header.length, TRUE,
                           no_extra_data, output_directory, w)
           ELSE IF item_header.type = ItemType_File
           THEN parse_file(buf, item_header.pos, item_header.length, FALSE,
                           no_extra_data, output_directory, w)
           ELSE [err |-> ErrUnknownType, pos |-> item_header.pos, w |-> w]
           : item_header \in {read_item_header(buf, pos)} })

\* total_items_to_read without the count unit of the trailer.
total_items_all(items_count) == items_count

\* total_items_to_read of _parse_image
total_items(items_count) == IF items_count - 1 > 0 THEN items_count - 1 ELSE 0

\* The loop of _parse_image from iteration k on: the state it ends in.
RECURSIVE parse_items(_, _, _, _, _, _, _)
parse_items(buf, pos, k, total, no_extra_data, output_directory, w) ==
    IF k >= total THEN [err |-> NoErr, pos |-> pos, w |-> w, k |-> k]
    ELSE Only({ IF r.err # NoErr
                THEN [err |-> r.err, pos |-> r.pos, w |-> r.w, k |-> k]
                ELSE parse_items(buf, r.pos, k + 1, total, no_extra_data,
                                 output_directory, r.w)
                : r \in {parse_item(buf, pos, no_extra_data, output_directory, w)} })

\* _parse_image: the exception it raises (NoErr: none) and the world it leaves.
parse_image(buf, no_extra_data, output_directory, w) ==
    Only({ IF mcfg_header.err # NoErr THEN [err |-> mcfg_header.err, w |-> w]
           ELSE IF mcfg_header.items_count = 0 THEN [err |-> ErrZeroItems, w |-> w]
           ELSE Only({ IF looped.err # NoErr THEN [err |-> looped.err, w |-> looped.w]
                       ELSE [err |-> read_trailer(buf, looped.pos), w |-> looped.w]
                       : looped \in {parse_items(buf, mcfg_header.pos, 0,
                                                 total_items(mcfg_header.items_count),
                                                 no_extra_data, output_directory, w)} })
           : mcfg_header \in {read_mcfg_header(buf)} })

\* -------------------------------------------------- extract and main

\* MbnExtractor.extract on a file [exists, is_elf, segments]: ELFFile(f), the
\* third segment's data, _parse_image.
extract(file, output_directory, no_extra_data, w) ==
    IF ~file.is_elf THEN [err |-> ErrElfParse, w |-> w]
    ELSE IF Len(file.segments) < 3 THEN [err |-> ErrElfSegments, w |-> w]
    ELSE parse_image(file.segments[3], no_extra_data, output_directory, w)

\* The names bound when main() evaluates the arguments of its call of
\* extract: main's locals and the module's globals.
MainLocals == { "parser", "args", "logger", "input_path", "outdir" }
ModuleGlobals ==
    { "annotations", "os", "io", "sys", "struct", "argparse", "logging",
      "IntEnum", "BinaryIO", "Optional", "ELFFile", "MbnExtractorException",
      "ItemType", "McfgHeader", "ItemHeader", "MbnExtractor", "main" }
NameBound(n) == n \in MainLocals \cup ModuleGlobals

\* The exit status main() maps the outcome of its try block to.
exit_status(e) ==
    IF e = NoErr THEN 0
    ELSE IF e \in MbnExtractorException THEN 2
    ELSE 1

\* main(): the exit status and the world it leaves.  The call's arguments are
\* evaluated inside the try block: input_path, outdir, no_extra.
main(file, output_directory, args_no_extra, w) ==
    IF ~file.exists THEN [exit |-> 2, err |-> NoErr, w |-> w]
    ELSE LET made == os_makedirs(output_directory, w.files, w.dirs)
             w1 == [w EXCEPT !.dirs = made.dirs]
             tried == IF ~NameBound("no_extra")
                      THEN [err |-> ErrName, w |-> w1]
                      ELSE extract(file, output_directory, args_no_extra, w1)
         IN [exit |-> exit_status(tried.err), err |-> tried.err, w |-> tried.w]

\* --------------------------------------------------------------- inputs

\* The most item records of a container.
MaxItems == 2

LE16(n) == <<n % 256, (n \div 256) % 256>>
LE32(n) == <<n % 256, (n \div 256) % 256, (n \div 65536) % 256, (n \div 16777216) % 256>>

\* Item records as written by a well-behaved encoder: kind, NV id (Nv),
\* name without its terminator (File, NvFile), data.
Item(kind, nv_id, name, data) ==
    [kind |-> kind, nv_id |-> nv_id, name |-> name, data |-> data]

ItemCatalogue ==
    { Item(ItemType_Nv, 7, <<>>, <<1>>),
      Item(ItemType_File, 0, <<97>>, <<4>>),
      Item(ItemType_NvFile, 0, <<97>>, <<5, 5>>),
      Item(ItemType_File, 0, <<46, 46, 47, 97>>, <<6>>),
      Item(ItemType_File, 0, <<97, 47, 98>>, <<7>>) }

ItemPayload(d) ==
    IF d.kind = ItemType_Nv
    THEN LE16(d.nv_id) \o LE16(Len(d.data) + 1) \o <<0>> \o d.data
    ELSE LE16(1) \o LE16(Len(d.name) + 1) \o d.name \o <<0>>
         \o LE16(2) \o LE16(Len(d.data) + 1) \o <<0>> \o d.data

ItemBytes(d) ==
    LE32(8 + Len(ItemPayload(d))) \o <<d.kind, 0>> \o LE16(0) \o ItemPayload(d)

\* The widths of the fields of an item record, in read order (the item header
\* is read as one field of 8 bytes).
ItemFields(d) ==
    IF d.kind = ItemType_Nv
    THEN <<8, 2, 2, 1, Len(d.data)>>
    ELSE <<8, 2, 2, Len(d.name) + 1, 2, 2, 1, Len(d.data)>>

\* Headers: items_count forced to 0 or not, version_id, version_size.
GoodHeader == [zero |-> FALSE, version_id |-> 4995, version_size |-> 4]
Headers == [zero : BOOLEAN, version_id : {4995, 4996}, version_size : {4, 5}]

HeaderBytes(h, n) ==
    MAGIC \o LE16(3) \o LE16(1) \o LE32(IF h.zero THEN 0 ELSE n) \o LE16(2) \o LE16(0)
    \o LE16(h.version_id) \o LE16(h.version_size) \o LE32(84148994)

HeaderFields == <<4, 2, 2, 4, 2, 2, 2, 2, 4>>

\* Trailers: both magic fields, data_length and the payload.
GoodTrailer ==
    [magic1 |-> 10, magic2 |-> 161, data_length |-> 16, payload |-> TRAILER_MAGIC]
Trailers ==
    { [magic1 |-> m1, magic2 |-> m2, data_length |-> p[1], payload |-> p[2]] :
        m1 \in {10, 11}, m2 \in {161, 162},
        p \in { <<16, TRAILER_MAGIC>>,
                <<7, <<>> >>,
                <<16, <<77, 67, 70, 71, 95, 84, 82, 88>> >>,
                <<17, <<77, 67, 70, 71, 128, 95, 84, 82, 76>> >> } }

TrailerBytes(t) ==
    LE32(20) \o LE16(t.magic1) \o LE16(0) \o LE16(t.magic2) \o LE16(t.data_length)
    \o t.payload

TrailerFields(t) == <<4, 2, 2, 2, 2, Len(t.payload)>>

\* Bytes in front of the signature.
Junks == { <<>>, <<0, 77, 67>> }

RECURSIVE Concat(_)
Concat(ss) == IF ss = <<>> THEN <<>> ELSE Head(ss) \o Concat(Tail(ss))

ItemLists == UNION { [1..n -> ItemCatalogue] : n \in 0..MaxItems }

\* The container an encoder writes for the items, header h and trailer t.
Container(items, h, t, junk) ==
    junk \o HeaderBytes(h, Len(items) + 1)
    \o Concat([k \in DOMAIN items |-> ItemBytes(items[k])]) \o TrailerBytes(t)

\* One edit of a buffer: cut to its first at bytes, or byte at (1-based) one
\* up or one down.
Edited(buf, edit, at) ==
    CASE edit = "cut" -> SubSeq(buf, 1, at)
      [] edit = "inc" -> [buf EXCEPT ![at] = @ + 1]
      [] edit = "dec" -> [buf EXCEPT ![at] = @ - 1]
      [] OTHER -> buf

\* The places of a buffer where a byte can go one up (or one down) and stay a
\* byte below 128: every 32-bit field of the inputs then stays below 2^31, the
\* integers of the model checker.
Editable(buf, edit) ==
    { k \in DOMAIN buf : IF edit = "inc" THEN buf[k] < 127 ELSE buf[k] > 0 }

\* An input: the container of the items, with at most one departure from what
\* the encoder writes (a header field, the trailer, bytes in front, one edit).
Plain(items) ==
    [items |-> items, header |-> GoodHeader, trailer |-> GoodTrailer,
     junk |-> <<>>, edit |-> "none", at |-> 0]

Inputs ==
    UNION { {Plain(items)}
            \cup { [Plain(items) EXCEPT !.header = h] : h \in Headers }
            \cup { [Plain(items) EXCEPT !.trailer = t] : t \in Trailers }
            \cup { [Plain(items) EXCEPT !.junk = j] : j \in Junks }
            \cup { [Plain(items) EXCEPT !.edit = "cut", !.at = k] :
                     k \in 0..(Len(Container(items, GoodHeader, GoodTrailer, <<>>)) - 1) }
            \cup { [Plain(items) EXCEPT !.edit = "inc", !.at = k] :
                     k \in Editable(Container(items, GoodHeader, GoodTrailer, <<>>), "inc") }
            \cup { [Plain(items) EXCEPT !.edit = "dec", !.at = k] :
                     k \in Editable(Container(items, GoodHeader, GoodTrailer, <<>>), "dec") }
          : items \in ItemLists }

InputBytes(in) ==
    Edited(Container(in.items, in.header, in.trailer, in.junk), in.edit, in.at)

\* The configured base output directory: "/o".
OutputDirectory == <<47, 111>>

\* Before the run: the root directory alone, nothing written.
EmptyWorld == [files |-> EmptyFiles, dirs |-> {<<>>}, sunk |-> <<>>]

\* ---------------------------------------------------------------- state

VARIABLES
    entry,          \* "main": the command line; "extract": MbnExtractor.extract
    input,          \* the input the file was made from
    file,           \* the input file: exists, is_elf, segments
    no_extra_data,  \* --no-extra-data
    pc,             \* "main", "extract", "header", "items", "trailer", "done"
    contents,       \* the stream's buffer
    pos,            \* the stream's cursor
    total_items_to_read,
    i,              \* the item records decoded
    w,              \* the world: files, dirs, sunk
    trailer_read,   \* _read_trailer was called
    err,            \* the exception that ended the run, NoErr when none
    exit_code       \* main()'s exit status, -1 while there is none

vars == <<entry, input, file, no_extra_data, pc, contents, pos,
          total_items_to_read, i, w, trailer_read, err, exit_code>>

Init ==
    /\ input \in Inputs
    /\ no_extra_data \in BOOLEAN
    /\ \/ /\ entry = "extract"
          /\ file = [exists |-> TRUE, is_elf |-> TRUE,
                     segments |-> << <<>>, <<>>, InputBytes(input) >>]
       \/ /\ entry \in {"main", "extract"}
          /\ input.edit = "none" /\ input.junk = <<>>
          /\ input.header = GoodHeader /\ input.trailer = GoodTrailer
          /\ file \in { [exists |-> x, is_elf |-> e, segments |-> s] :
                          x \in BOOLEAN, e \in BOOLEAN,
                          s \in { << <<>>, <<>>, InputBytes(input) >>,
                                  << <<>>, InputBytes(input) >> } }
          /\ entry = "extract" => file.exists
    /\ pc = entry
    /\ contents = <<>>
    /\ pos = 0
    /\ total_items_to_read = 0
    /\ i = 0
    /\ w = EmptyWorld
    /\ trailer_read = FALSE
    /\ err = NoErr
    /\ exit_code = -1

\* main(), from the command line to the exit.
Main ==
    /\ pc = "main"
    /\ LET r == main(file, OutputDirectory, no_extra_data, w)
       IN /\ exit_code' = r.exit
          /\ err' = r.err
          /\ w' = r.w
    /\ pc' = "done"
    /\ UNCHANGED <<entry, input, file, no_extra_data, contents, pos,
                   total_items_to_read, i, trailer_read>>

\* MbnExtractor.extract up to its call of _parse_image.
Extract ==
    /\ pc = "extract"
    /\ IF ~file.is_elf
       THEN /\ err' = ErrElfParse /\ pc' = "done" /\ UNCHANGED contents
       ELSE IF Len(file.segments) < 3
       THEN /\ err' = ErrElfSegments /\ pc' = "done" /\ UNCHANGED contents
       ELSE /\ contents' = file.segments[3] /\ pc' = "header" /\ UNCHANGED err
    /\ UNCHANGED <<entry, input, file, no_extra_data, pos, total_items_to_read,
                   i, w, trailer_read, exit_code>>

\* _parse_image up to its loop.
ReadHeader ==
    /\ pc = "header"
    /\ LET mcfg_header == read_mcfg_header(contents)
       IN /\ pos' = mcfg_header.pos
          /\ IF mcfg_header.err # NoErr
             THEN /\ err' = mcfg_header.err /\ pc' = "done"
                  /\ UNCHANGED total_items_to_read
             ELSE IF mcfg_header.items_count = 0
             THEN /\ err' = ErrZeroItems /\ pc' = "done"
                  /\ UNCHANGED total_items_to_read
             ELSE /\ total_items_to_read' = total_items(mcfg_header.items_count)
                  /\ pc' = IF total_items(mcfg_header.items_count) = 0
                           THEN "trailer" ELSE "items"
                  /\ UNCHANGED err
    /\ UNCHANGED <<entry, input, file, no_extra_data, contents, i, w,
                   trailer_read, exit_code>>

\* ParseItem going on behind a record that failed.
ParseItemGoingOn ==
    /\ pc = "items"
    /\ i < total_items_to_read
    /\ LET r == parse_item(contents, pos, no_extra_data, OutputDirectory, w)
       IN /\ pos' = r.pos
          /\ w' = r.w
          /\ err' = IF r.err # NoErr THEN r.err ELSE err
          /\ i' = IF r.err # NoErr THEN i ELSE i + 1
          /\ pc' = IF r.err # NoErr /\ r.pos >= Len(contents) THEN "done"
                   ELSE IF r.err = NoErr /\ i + 1 >= total_items_to_read THEN "trailer"
                   ELSE "items"
    /\ UNCHANGED <<entry, input, file, no_extra_data, contents,
                   total_items_to_read, trailer_read, exit_code>>

\* One iteration of the loop of _parse_image.
ParseItem ==
    /\ pc = "items"
    /\ i < total_items_to_read
    /\ LET r == parse_item(contents, pos, no_extra_data, OutputDirectory, w)
       IN /\ pos' = r.pos
          /\ w' = r.w
          /\ IF r.err # NoErr
             THEN /\ err' = r.err /\ pc' = "done" /\ UNCHANGED i
             ELSE /\ i' = i + 1
                  /\ pc' = IF i + 1 >= total_items_to_read THEN "trailer" ELSE "items"
                  /\ UNCHANGED err
    /\ UNCHANGED <<entry, input, file, no_extra_data, contents,
                   total_items_to_read, trailer_read, exit_code>>

\* _parse_image behind its loop: _read_trailer.
ReadTrailer ==
    /\ pc = "trailer"
    /\ err' = read_trailer(contents, pos)
    /\ trailer_read' = TRUE
    /\ pc' = "done"
    /\ UNCHANGED <<entry, input, file, no_extra_data, contents, pos,
                   total_items_to_read, i, w, exit_code>>

Next == Main \/ Extract \/ ReadHeader \/ ParseItem \/ ReadTrailer

Spec == Init /\ [][Next]_vars

\* ---------------------------------------------------------- the claims

\* The run parses the container of its input: extract was called on an ELF
\* file with a third segment.
Loaded == entry = "extract" /\ file.is_elf /\ Len(file.segments) = 3

\* The input is what an encoder writes (bytes in front of the signature are
\* allowed).
WellFormedInput ==
    input.header = GoodHeader /\ input.trailer = GoodTrailer /\ input.edit = "none"

\* The names and widths an encoder's container is made of, from the input's
\* description alone.
RECURSIVE SumLen(_)
SumLen(ss) == IF ss = <<>> THEN 0 ELSE Len(Head(ss)) + SumLen(Tail(ss))

\* The 0-based offset of item j in the container of the items (no bytes in
\* front): behind the 24 bytes of the header and the items before it.
ItemStart(items, j) == 24 + SumLen([k \in 1..(j - 1) |-> ItemBytes(items[k])])

RECURSIVE Ends(_, _)
Ends(widths, from) ==
    IF widths = <<>> THEN {from}
    ELSE {from + Head(widths)} \cup Ends(Tail(widths), from + Head(widths))

\* The offsets at which a field of the container of the items ends.
FieldEnds(items) ==
    Ends(HeaderFields \o Concat([k \in DOMAIN items |-> ItemFields(items[k])])
         \o TrailerFields(GoodTrailer), 0)

\* The name an item is to be written under.
ExpectedName(d, suppressed) ==
    IF d.kind = ItemType_Nv
    THEN <<78, 118, 73, 116, 101, 109, 95, 95, 48, 48, 48, 48, 48, 48, 48, 48 + d.nv_id>>
    ELSE IF suppressed THEN d.name
    ELSE IF d.kind = ItemType_NvFile
    THEN d.name \o <<95, 95, 69, 49, 70, 70, 95, 70>>
    ELSE d.name \o <<95, 95, 56, 49, 70, 70, 95, 48>>

\* The location a path names: "" and "." dropped, ".." dropping the name
\* before it.
RECURSIVE Normal(_, _)
Normal(names, acc) ==
    IF names = <<>> THEN acc
    ELSE IF Head(names) = <<>> \/ Head(names) = <<46>> THEN Normal(Tail(names), acc)
    ELSE IF Head(names) = <<46, 46>>
    THEN Normal(Tail(names), IF acc = <<>> THEN acc ELSE SubSeq(acc, 1, Len(acc) - 1))
    ELSE Normal(Tail(names), Append(acc, Head(names)))

\* The location of output name under the base output directory.
Location(name) == Normal(PathNames(OutputDirectory \o <<47>> \o name), <<>>)

\* The location of the base output directory.
BaseLocation == Normal(PathNames(OutputDirectory), <<>>)

\* The files that the sink calls of a log leave, each at the location of its
\* name, a later call replacing an earlier one at the same location.
RECURSIVE Replay(_)
Replay(log) ==
    IF log = <<>> THEN EmptyFiles
    ELSE LET before == Replay(SubSeq(log, 1, Len(log) - 1))
             last == log[Len(log)]
         IN [p \in DOMAIN before \cup {Location(last.name)} |->
               IF p = Location(last.name) THEN last.content ELSE before[p]]

\* The sink calls that returned.
Written == SelectSeq(w.sunk, LAMBDA c : c.ok)

\* C1: main() exits with status 0 when the extraction of an existing input
\* file succeeds, with 2 when the input is missing or the extraction raises
\* an MbnExtractorException, with 1 for any other failure.
C1_ExitStatus ==
    (entry = "main" /\ pc = "done") =>
        exit_code =
            IF ~file.exists THEN 2
            ELSE LET e == extract(file, OutputDirectory, no_extra_data, EmptyWorld).err
                 IN IF e = NoErr THEN 0
                    ELSE IF e \in MbnExtractorException THEN 2
                    ELSE 1

\* C2: on a well-formed container with items_count = N the trailer is read
\* only once N - 1 item records are decoded, no item is decoded after it, and
\* a pass that no sink failure ends decodes N - 1 items, then reads the
\* trailer, and succeeds.
C2_ItemsThenTrailer ==
    (Loaded /\ WellFormedInput) =>
        /\ (pc = "trailer" \/ trailer_read) => i = Len(input.items)
        /\ trailer_read => pc = "done"
        /\ (pc = "done" /\ err \notin {ErrNotADirectory, ErrIsADirectory})
              => (trailer_read /\ err = NoErr /\ i = Len(input.items))

C2_Witness ==
    /\ Loaded /\ WellFormedInput
    /\ Len(input.items) = 2 /\ i = 2 /\ trailer_read /\ err = NoErr

\* The size-mismatch condition of an item kind.
SizeMismatch(kind) == IF kind = ItemType_Nv THEN ErrNvItemSize ELSE ErrFileItemSize

\* The input's one edit moved the length field of item j off the bytes the
\* item holds (one up: the payload is one byte short of the declared length).
LengthEdited(j) ==
    /\ input.edit \in {"inc", "dec"}
    /\ input.at = ItemStart(input.items, j) + 1

C3_WrittenOnlyIfSized ==
    (pc = "items" /\ w'.sunk # w.sunk) =>
        pos' - pos = contents[pos + 1] + 256 * contents[pos + 2]
                     + 65536 * contents[pos + 3] + 16777216 * contents[pos + 4]

C3_MismatchFails ==
    \A j \in DOMAIN input.items :
        (Loaded /\ LengthEdited(j) /\ pc = "done" /\ i = j - 1) =>
            /\ err = SizeMismatch(input.items[j].kind)
            /\ Len(w.sunk) = j - 1
            /\ w.files = Replay(SubSeq(w.sunk, 1, j - 1))

\* C3: an item is handed to the sink only if the bytes consumed for it, the
\* item header's 8 and the payload, equal the length its header declares; an
\* item whose reads succeed but whose length field is off by one fails with
\* the size-mismatch condition of its kind and nothing is written for it.
C3_SizeChecked == [][C3_WrittenOnlyIfSized]_vars /\ []C3_MismatchFails

C3_Witness ==
    /\ Loaded /\ Len(input.items) = 2 /\ input.edit = "inc" /\ LengthEdited(2)
    /\ input.items[2].kind = ItemType_File
    /\ pc = "done" /\ i = 1 /\ err = ErrFileItemSize /\ Len(w.sunk) = 1

C4_FailingStep ==
    (err' # NoErr) => (w'.files = w.files /\ i' = i /\ pc' = "done")

C4_FilesOfDecoded ==
    entry = "extract" =>
        /\ Len(Written) = i
        /\ w.files = Replay(Written)
        /\ \A k \in DOMAIN w.sunk : k <= i => w.sunk[k].ok

\* C4: the step that fails writes no file and ends the pass; the files
\* written are then those of the sink calls of the records decoded before,
\* nothing of the failing record or of a later one.
C4_FailFast == [][C4_FailingStep]_vars /\ []C4_FilesOfDecoded

C4_Witness ==
    /\ Loaded /\ input.trailer.magic2 # 161 /\ input.trailer.magic1 = 10
    /\ pc = "done" /\ err = ErrTrailerMagic2 /\ i = 2
    /\ Cardinality(DOMAIN w.files) = 2

\* The condition of the first check of _read_trailer a trailer violates, in
\* read order: magic 1, magic 2, size, magic value.
TrailerVerdict(t) ==
    IF t.magic1 # 10 THEN ErrTrailerMagic1
    ELSE IF t.magic2 # 161 THEN ErrTrailerMagic2
    ELSE IF t.data_length < 8 THEN ErrTrailerSize
    ELSE IF Len(t.payload) # t.data_length - 8 \/ t.payload # TRAILER_MAGIC
    THEN ErrTrailerValue
    ELSE NoErr

\* C5: the trailer is accepted if and only if magic1 = 10, magic2 = 0xA1,
\* data_length >= 8 and its data_length - 8 payload bytes are the 8 bytes
\* "MCFG_TRL"; any other trailer fails with the condition of the first check
\* it violates.
C5_TrailerAccepted ==
    (Loaded /\ input.header = GoodHeader /\ input.edit = "none" /\ trailer_read)
        => err = TrailerVerdict(input.trailer)

\* The place of the first occurrence of the signature in buf, -1 when there
\* is none.
FirstSignature(buf) ==
    IF \E k \in 0..(Len(buf) - 4) : SubSeq(buf, k + 1, k + 4) = <<77, 67, 70, 71>>
    THEN CHOOSE k \in 0..(Len(buf) - 4) :
            /\ SubSeq(buf, k + 1, k + 4) = <<77, 67, 70, 71>>
            /\ \A j \in 0..(k - 1) : SubSeq(buf, j + 1, j + 4) # <<77, 67, 70, 71>>
    ELSE -1

\* version_id or version_size of the header at the first signature of buf is
\* not the fixed constant, and buf holds both fields.
BadVersion(buf) ==
    LET at == FirstSignature(buf)
    IN /\ at # -1
       /\ Len(buf) >= at + 20
       /\ \/ buf[at + 17] + 256 * buf[at + 18] # 4995
          \/ buf[at + 19] + 256 * buf[at + 20] # 4

\* C6: a header whose version_id is not 4995 or whose version_size is not 4
\* fails header parsing with the invalid-header condition of that field; no
\* item is read, the trailer is not read, nothing is written.
C6_VersionGuard ==
    (Loaded /\ pc \notin {"extract", "header"} /\ BadVersion(contents)) =>
        /\ pc = "done"
        /\ err = IF contents[FirstSignature(contents) + 17]
                        + 256 * contents[FirstSignature(contents) + 18] # 4995
                 THEN ErrVersionId ELSE ErrVersionSize
        /\ i = 0 /\ ~trailer_read /\ w = EmptyWorld

C6_Witness ==
    /\ Loaded /\ pc = "done" /\ BadVersion(contents)
    /\ input.header.zero /\ input.header.version_id = 4995
    /\ Len(input.items) = 2 /\ err = ErrVersionSize

\* The last item of the input written to location p.
LastAt(p) ==
    CHOOSE j \in DOMAIN input.items :
        /\ Location(ExpectedName(input.items[j], no_extra_data)) = p
        /\ \A k \in DOMAIN input.items :
              Location(ExpectedName(input.items[k], no_extra_data)) = p => k <= j

\* C7 as stated: after a successful pass over a well-formed container with
\* items_count = N into an empty directory there are N - 1 files, one per
\* item.
C7_OneFilePerItem ==
    (Loaded /\ WellFormedInput /\ pc = "done" /\ err = NoErr) =>
        Cardinality(DOMAIN w.files) = Len(input.items)

\* C7 amended: after a successful pass the files written are at the
\* locations the items' output names resolve to, one per distinct location,
\* each holding the data of the last item written there.
C7_OneFilePerLocation ==
    (Loaded /\ WellFormedInput /\ pc = "done" /\ err = NoErr) =>
        /\ DOMAIN w.files =
              { Location(ExpectedName(input.items[j], no_extra_data)) :
                  j \in DOMAIN input.items }
        /\ \A p \in DOMAIN w.files : w.files[p] = input.items[LastAt(p)].data

C7_Witness ==
    /\ Loaded /\ WellFormedInput /\ pc = "done" /\ err = NoErr
    /\ Len(input.items) = 2 /\ Cardinality(DOMAIN w.files) = 1
    /\ input.items[1].data # input.items[2].data

\* The input is a prefix of a well-formed container that ends inside a field.
CutMidField ==
    /\ Loaded /\ input.edit = "cut"
    /\ input.at \notin FieldEnds(input.items) \cup {0}

\* The item records that lie wholly in the first n bytes of the container.
WholeItems(n) ==
    Cardinality({ j \in DOMAIN input.items : ItemStart(input.items, j + 1) <= n })

\* C8 as stated: every prefix of a well-formed container that ends inside a
\* field fails with the truncated-input condition.
C8_TruncationIsEOF ==
    (CutMidField /\ pc = "done") => err = ErrEOF

\* C8 amended: a prefix that ends inside the signature fails with the
\* signature-not-found condition; a prefix that ends inside a later field of
\* a container whose complete pass succeeds fails with the truncated-input
\* condition; either way only the items that lie wholly in the prefix
\* reach the sink, with their own names and data.
C8_Truncation ==
    (CutMidField /\ pc = "done") =>
        /\ input.at < 4 => err = ErrNoMagic
        /\ ( /\ input.at >= 4
             /\ parse_image(Container(input.items, GoodHeader, GoodTrailer, <<>>),
                            no_extra_data, OutputDirectory, EmptyWorld).err = NoErr )
              => err = ErrEOF
        /\ err # NoErr
        /\ Len(w.sunk) <= WholeItems(input.at)
        /\ \A k \in DOMAIN w.sunk :
              /\ w.sunk[k].name = ExpectedName(input.items[k], no_extra_data)
              /\ w.sunk[k].content = input.items[k].data

C8_Witness ==
    /\ CutMidField /\ pc = "done" /\ err = ErrEOF
    /\ Len(input.items) = 2 /\ Len(w.sunk) = 1
    /\ input.at > ItemStart(input.items, 2) + 8

\* C9: a File or NvFile item with ASCII name s is handed to the sink under
\* s + "__81FF_0" (File) or s + "__E1FF_F" (NvFile), under s alone when name
\* suppression is on, with exactly its data bytes.
C9_SinkNames ==
    (Loaded /\ input.edit = "none" /\ ~input.header.zero) =>
        \A k \in DOMAIN w.sunk :
            input.items[k].kind # ItemType_Nv =>
                /\ w.sunk[k].name =
                      IF no_extra_data THEN input.items[k].name
                      ELSE IF input.items[k].kind = ItemType_File
                      THEN input.items[k].name \o <<95, 95, 56, 49, 70, 70, 95, 48>>
                      ELSE input.items[k].name \o <<95, 95, 69, 49, 70, 70, 95, 70>>
                /\ w.sunk[k].content = input.items[k].data

C9_Witness ==
    /\ Loaded /\ input.edit = "none" /\ pc = "done" /\ err = NoErr
    /\ Len(w.sunk) = 2 /\ ~no_extra_data
    /\ input.items[1].kind = ItemType_File /\ input.items[2].kind = ItemType_NvFile
    /\ w.sunk[1].name = <<97, 95, 95, 56, 49, 70, 70, 95, 48>>
    /\ w.sunk[2].name = <<97, 95, 95, 69, 49, 70, 70, 95, 70>>

\* C10: every file written lies inside the base output directory.
C10_UnderBase ==
    \A p \in DOMAIN w.files :
        /\ Len(p) > Len(BaseLocation)
        /\ SubSeq(p, 1, Len(BaseLocation)) = BaseLocation

====
